---- MODULE Spec2Model ----
(***************************************************************************)
(* Model of QaseMochaReporter (src/src/QaseMochaReporter.ts, lines 1-283): *)
(* a Mocha reporter that buffers test outcomes and synchronises them to a  *)
(* Qase test run.  The reporter's fields are state variables, every remote *)
(* SDK call is an await point of its handler (issued by one step, settled  *)
(* by the next), and the SDK's answers are chosen by the environment.      *)
(* The host (Mocha's Runner) emits run-begin once, then well-nested suite   *)
(* events with test-end events inside them, then run-end once; it may go   *)
(* on emitting events after a handler has thrown.  Lines 284-476 of the    *)
(* file hold an earlier revision of the class, without cleanup-and-retry;  *)
(* the model follows the current revision.                                 *)
(***************************************************************************)
EXTENDS Integers, Sequences, FiniteSets, TLC

(* ------------------------------ bounds --------------------------------- *)
\* number of test-end events the host emits in one run
MaxTests == 2
\* nesting depth of suites the host opens
MaxDepth == 2
\* entities in one page of the run listing
MaxListed == 2

\* getRecentActiveTestRuns(limit = 10): the page size asked of the listing
PageLimit == 10

(* ------------------------- values of the program ------------------------ *)
\* `undefined` for the number-typed fields (run ids, durations)
NoId == 0
\* `undefined` for the string-typed fields (suite name, error message)
Undefined == "<undefined>"

SuiteTitles == {"", "fileToTest"}
\* the state a Runnable reports through isPassed / isFailed / isPending;
\* "none" is a runnable for which all three predicates answer false
TestStates == {"passed", "failed", "pending", "none"}
\* the runnables the host hands to test-end: the three tests of the
\* repository's own suite (a skipped test has no duration) and one runnable
\* in no recognised state
Tests ==
    {[title |-> "fileToTest add works", state |-> "passed", duration |-> 12],
     [title |-> "fileToTest skip works", state |-> "pending", duration |-> NoId],
     [title |-> "fileToTest failures works", state |-> "failed", duration |-> 3],
     [title |-> "fileToTest add works", state |-> "none", duration |-> NoId]}

\* ids the service has given to earlier runs, and the id it gives to a new run
StaleIds == {1, 2}
NewIds == {3}

(* ------------------------------ errors ---------------------------------- *)
\* A thrown value.  src = "sdk": rejected by the remote call number `call`
\* (its position in `calls`); src = "local": constructed by the reporter.
\* isError: the value is an instance of Error (the SDK rejects with Errors
\* only); hasResponse: it carries a `response` property with `status` and
\* `data.errorMessage`.
NoError ==
    [src |-> "none", call |-> 0, isError |-> FALSE, hasResponse |-> FALSE,
     status |-> 0, message |-> Undefined]

LocalError(text) ==
    [src |-> "local", call |-> 0, isError |-> TRUE, hasResponse |-> FALSE,
     status |-> 0, message |-> text]

SdkError(n, shape) ==
    [src |-> "sdk", call |-> n, isError |-> shape.isError,
     hasResponse |-> shape.hasResponse, status |-> shape.status,
     message |-> shape.message]

ErrorMessages == {Undefined, "Limit of Active Runs exceeded", "Forbidden"}

\* what an SDK call can reject with
Response(s, m) ==
    [isError |-> TRUE, hasResponse |-> TRUE, status |-> s, message |-> m]

\* an Error without a response (the request never got an answer)
NoResponse ==
    [isError |-> TRUE, hasResponse |-> FALSE, status |-> 0, message |-> Undefined]

\* what an SDK call can reject with
ErrorShapes ==
    {NoResponse}
    \cup {Response(403, m) : m \in ErrorMessages}
    \cup {Response(404, Undefined), Response(500, Undefined),
          Response(500, "Limit of Active Runs exceeded")}

\* rejections of the calls whose error the reporter never inspects further
\* than for its response
FewErrorShapes == {NoResponse, Response(500, Undefined)}

\* String.prototype.toLowerCase on the messages of the model
toLowerCase(s) ==
    CASE s = "Limit of Active Runs exceeded" -> "limit of active runs exceeded"
      [] s = "Forbidden" -> "forbidden"
      [] OTHER -> s

\* s.includes('limit of active runs') on lower-cased messages of the model
includesLimitOfActiveRuns(s) == s \in {"limit of active runs exceeded"}

\* extractErrorResponse: the response of an Error that has one; every other
\* value is thrown again ("throws" = TRUE)
extractErrorResponse(error) ==
    IF error.isError /\ error.hasResponse
    THEN [throws |-> FALSE, status |-> error.status, message |-> error.message]
    ELSE [throws |-> TRUE, status |-> 0, message |-> Undefined]

\* isLimitOfActiveRunsError that takes every 403 for the limit
isLimitOfActiveRunsErrorAnyForbidden(error) ==
    LET response == extractErrorResponse(error)
    IN  response.status = 403

\* isLimitOfActiveRunsError, where extractErrorResponse did not throw
isLimitOfActiveRunsError(error) ==
    LET response == extractErrorResponse(error)
    IN  /\ response.status = 403
        /\ response.message # Undefined
        /\ includesLimitOfActiveRuns(toLowerCase(response.message))

(* ------------------------------ state ----------------------------------- *)
VARIABLES
    env,              \* process.env, as the constructor finds it
    subscribed,       \* runner events the reporter has subscribed a handler to
    qaseTestRunTags,  \* this.qaseTestRunTags
    pc,               \* where the host / the running handler stands
    qaseTestRunId,    \* this.qaseTestRunId
    currentSuiteName, \* this.currentSuiteName
    indents,          \* this._indents
    results,          \* this.results
    openSuites,       \* host: titles of the suites begun and not yet ended
    calls,            \* remote calls issued so far, in order
    inflight,         \* remote calls issued and not yet settled
    activeRuns,       \* completeActiveRuns: runs still to complete
    pendingError,     \* _mochaRunEnd: what the try block threw, held by finally
    thrown,           \* what the last finished handler threw (NoError: returned)
    handler,          \* the handler that ran last or is running
    replies,          \* how the remote calls of that handler settled
    errorLog,         \* console.error lines written during the handler
    testEnds,         \* host: test-end events emitted so far
    lastTest,         \* host: the runnable of the test-end event being handled
    stats,            \* host: this.runner.stats
    summary           \* console.log: the `end:` lines printed so far

\* what the constructor settles for the lifetime of the reporter
config == <<env, subscribed, qaseTestRunTags>>

\* what the final summary is made of and where it goes
reporting == <<stats, summary>>

vars ==
    <<env, subscribed, qaseTestRunTags, pc, qaseTestRunId, currentSuiteName, indents, results, openSuites, calls,
      inflight, activeRuns, pendingError, thrown, handler, replies, errorLog,
      testEnds, lastTest, stats, summary>>

NoTest == [title |-> Undefined, state |-> "none", duration |-> NoId]

(* ---------------------------- construction ----------------------------- *)
RequiredEnvVars == <<"QASE_API_TOKEN", "QASE_PROJECT_CODE", "QASE_TEST_RUN_TITLE">>
TagsEnvVar == "QASE_TEST_RUN_TAGS"
EnvVars == {RequiredEnvVars[i] : i \in DOMAIN RequiredEnvVars} \cup {TagsEnvVar}

\* the value a variable has when it is set
EnvValue(name) == IF name = TagsEnvVar THEN "smoke, ci" ELSE "set"

\* process.env: every variable is set or undefined
Envs == {e \in [EnvVars -> {"set", "smoke, ci", Undefined}] :
            \A name \in EnvVars : e[name] \in {EnvValue(name), Undefined}}

\* the environment the README asks for, tags included
FullEnv == [name \in EnvVars |-> EnvValue(name)]

\* the events the constructor subscribes to, lines 56-60
LifecycleEvents == {"begin", "suiteBegin", "suiteEnd", "testEnd", "runEnd"}

RequiresEnvVar == "qase-mocha-report requires you to set an env var"

\* _requireEnvVar that hands an unset variable on as undefined
requireEnvVarUnchecked(e, name) == [throws |-> NoError, value |-> e[name]]

\* _requireEnvVar: [throws, value]
requireEnvVar(e, name) ==
    IF e[name] = Undefined
    THEN [throws |-> LocalError(RequiresEnvVar), value |-> Undefined]
    ELSE [throws |-> NoError, value |-> e[name]]

\* tagsString.split(',').map(t => t.trim()) on the tag strings of the model
splitAndTrim(tagsString) ==
    IF tagsString = "smoke, ci" THEN <<"smoke", "ci">> ELSE <<tagsString>>

\* the tags field when the variable is unset: undefined
NoTags == <<Undefined>>

\* _qaseTestRunTagsFromEnvVar
qaseTestRunTagsFromEnvVar(e, name) ==
    IF e[name] = Undefined THEN NoTags ELSE splitAndTrim(e[name])

\* the first required variable, in the order of the field initialisers, that
\* _requireEnvVar throws for; NoError when none does
FieldInitialisers(e) ==
    LET failing == {i \in DOMAIN RequiredEnvVars :
                        requireEnvVar(e, RequiredEnvVars[i]).throws # NoError}
    IN  IF failing = {} THEN NoError
        ELSE requireEnvVar(e, RequiredEnvVars[
                 CHOOSE i \in failing : \A j \in failing : i <= j]).throws

\* this.runner.stats before any test has run
NoStats == [passes |-> 0, failures |-> 0, pending |-> 0]

\* the host counts a test that ended by its state; the reporter only reads it
statsAfter(s, test) ==
    [passes   |-> s.passes   + (IF test.state = "passed"  THEN 1 ELSE 0),
     failures |-> s.failures + (IF test.state = "failed"  THEN 1 ELSE 0),
     pending  |-> s.pending  + (IF test.state = "pending" THEN 1 ELSE 0)]

\* an `end:` line that counts every test the host has counted
summaryOfTestsSeen(s) ==
    [passes |-> s.passes, total |-> s.passes + s.failures + s.pending]

\* `end: ${passes}/${passes + failures} ok`
summaryOf(s) == [passes |-> s.passes, total |-> s.passes + s.failures]

\* the state before `new QaseMochaReporter(runner)`, in environment e
InitIn(e) ==
    /\ env = e
    /\ subscribed = {}
    /\ qaseTestRunTags = NoTags
    /\ pc = "new"
    /\ qaseTestRunId = NoId
    /\ currentSuiteName = Undefined
    /\ indents = 0
    /\ results = <<>>
    /\ openSuites = <<>>
    /\ calls = <<>>
    /\ inflight = 0
    /\ activeRuns = <<>>
    /\ pendingError = NoError
    /\ thrown = NoError
    /\ handler = "none"
    /\ replies = <<>>
    /\ errorLog = {}
    /\ testEnds = 0
    /\ lastTest = NoTest
    /\ stats = NoStats
    /\ summary = <<>>

\* the reporter is constructed in a complete environment
Init == InitIn(FullEnv)

\* the reporter is constructed in any environment
InitAnyEnv == \E e \in Envs : InitIn(e)

\* new QaseMochaReporter(runner): the field initialisers run first and the
\* constructor body subscribes the handlers; a throw ends the construction
Construct ==
    /\ pc = "new"
    /\ handler' = "constructor"
    /\ thrown' = FieldInitialisers(env)
    /\ IF FieldInitialisers(env) # NoError
       THEN /\ pc' = "failed"
            /\ UNCHANGED <<subscribed, qaseTestRunTags>>
       ELSE /\ pc' = "constructed"
            /\ qaseTestRunTags' = qaseTestRunTagsFromEnvVar(env, TagsEnvVar)
            /\ subscribed' = LifecycleEvents
    /\ UNCHANGED <<env, qaseTestRunId, currentSuiteName, indents, results,
                   openSuites, calls, inflight, activeRuns, pendingError,
                   replies, errorLog, testEnds, lastTest>>
    /\ UNCHANGED reporting

(* --------------------------- remote calls ------------------------------- *)
Call(op, run, payload) == [op |-> op, run |-> run, results |-> payload]

\* a promise that is not awaited: the call stays in flight
NotAwaited(n) == n

\* a promise handed to `await` / deasyncPromise: control returns only once it
\* has settled, so the call is no longer in flight afterwards
Awaited(n) == n - 1

\* the handler issues call c: it is appended to the log and is in flight
Issue(c) ==
    /\ calls' = Append(calls, c)
    /\ inflight' = Awaited(inflight) + 1

\* the first call of a handler: nothing was awaited before it
IssueFirst(c) ==
    /\ calls' = Append(calls, c)
    /\ inflight' = inflight + 1

\* the call the handler waits for settles and no further call is issued
Settle ==
    /\ calls' = calls
    /\ inflight' = Awaited(inflight)

\* the handler ends: by throwing err, or returning when err = NoError
Finish(next, err) ==
    /\ pc' = next
    /\ thrown' = err


(* ----------------------- answers of the service ------------------------- *)
Rejections == [ok : {FALSE}, shape : ErrorShapes]

\* projects.getProject: result.data.result is a Project or undefined
ProjectAnswers == [ok : {TRUE}, defined : BOOLEAN] \cup Rejections

\* runs.createRun: result.data.result?.id is a fresh id or undefined
CreateRunAnswers == [ok : {TRUE}, id : NewIds \cup {NoId}] \cup Rejections

\* a Run of the listing: id (possibly undefined) and status_text
Runs == [id : StaleIds \cup {NoId}, status_text : {"active", "complete"}]

\* the runs of a small project, as the service lists them: no id appears twice
RunLists ==
    {l \in UNION {[1..n -> Runs] : n \in 0..MaxListed} :
        \A i, j \in 1..Len(l) : i # j => l[i].id # l[j].id}

\* the runs of a project that has one run more than a page holds: an active
\* run, then completed ones, and last another active run
LongProject ==
    [i \in 1..(PageLimit + 1) |->
        IF i = 1 THEN [id |-> 1, status_text |-> "active"]
        ELSE IF i = PageLimit + 1 THEN [id |-> 2, status_text |-> "active"]
        ELSE [id |-> PageLimit + i, status_text |-> "complete"]]

Projects == RunLists \cup {LongProject}

\* the service answers a listing with offset 0 by the first `limit` runs
Page(project, limit) ==
    SubSeq(project, 1, IF Len(project) < limit THEN Len(project) ELSE limit)

\* runs.getRuns(projectCode, undefined, limit, 0) fulfilled for a project:
\* result.data.result is undefined, or has the total and the entities of
\* one page (possibly undefined)
getRuns(project, limit, defined, hasEntities) ==
    [ok |-> TRUE, defined |-> defined, total |-> Len(project),
     hasEntities |-> defined /\ hasEntities,
     entities |-> IF defined /\ hasEntities THEN Page(project, limit) ELSE <<>>,
     project |-> project]

GetRunsAnswers ==
    {getRuns(project, PageLimit, defined, hasEntities) :
        project \in Projects, defined \in BOOLEAN, hasEntities \in BOOLEAN}
    \cup Rejections

\* runs.completeRun and results.createResultBulk: fulfilled or rejected
PlainAnswers == [ok : {TRUE}] \cup [ok : {FALSE}, shape : FewErrorShapes]

(* --------------------------- async helpers ------------------------------ *)
\* getProject that wraps what it cannot recover from in a new Error
getProjectWrapping(answer, n) ==
    IF answer.ok
    THEN [throws |-> NoError, project |-> answer.defined]
    ELSE LET error == SdkError(n, answer.shape)
             response == extractErrorResponse(error)
         IN  IF ~response.throws /\ response.status = 404
             THEN [throws |-> NoError, project |-> FALSE]
             ELSE [throws |-> LocalError("Couldn't get the project"),
                   project |-> FALSE]

\* getProject: [throws, project] -- project is FALSE for `undefined`
getProject(answer, n) ==
    IF answer.ok
    THEN [throws |-> NoError, project |-> answer.defined]
    ELSE LET error == SdkError(n, answer.shape)
             response == extractErrorResponse(error)
         IN  IF response.throws THEN [throws |-> error, project |-> FALSE]
             ELSE IF response.status = 404
                  THEN [throws |-> NoError, project |-> FALSE]
                  ELSE [throws |-> error, project |-> FALSE]

MustCreateProject == "You must first create a Qase project in their UI"

\* ensureQaseProjectExists that reports the missing project without throwing
ensureQaseProjectExistsLogOnly(answer, n) ==
    LET project == getProject(answer, n)
    IN  IF project.throws # NoError
        THEN [throws |-> project.throws, log |-> {}]
        ELSE IF ~project.project
             THEN [throws |-> NoError, log |-> {MustCreateProject}]
             ELSE [throws |-> NoError, log |-> {}]

\* ensureQaseProjectExists: [throws, log]
ensureQaseProjectExists(answer, n) ==
    LET project == getProject(answer, n)
    IN  IF project.throws # NoError
        THEN [throws |-> project.throws, log |-> {}]
        ELSE IF ~project.project
             THEN [throws |-> LocalError(MustCreateProject),
                   log |-> {MustCreateProject}]
             ELSE [throws |-> NoError, log |-> {}]

CouldntCreate == "Couldn't create a qase test run"

\* createTestRun: [throws, testRunNumber, limit] -- limit is the result
\* { error: 'active-run-limit-reached' }
createTestRun(answer, n) ==
    LET error == IF answer.ok THEN LocalError(CouldntCreate)
                              ELSE SdkError(n, answer.shape)
    IN  IF answer.ok /\ answer.id # NoId
        THEN [throws |-> NoError, testRunNumber |-> answer.id, limit |-> FALSE]
        ELSE IF extractErrorResponse(error).throws
             THEN [throws |-> error, testRunNumber |-> NoId, limit |-> FALSE]
             ELSE IF isLimitOfActiveRunsError(error)
                  THEN [throws |-> NoError, testRunNumber |-> NoId, limit |-> TRUE]
                  ELSE [throws |-> error, testRunNumber |-> NoId, limit |-> FALSE]

CouldntGetActive == "Couldn't get active test runs"

\* a filter that keeps every run of the page
AllOf(entities) == entities

\* the filter of getRecentActiveTestRuns
ActiveOf(entities) == SelectSeq(entities, LAMBDA run : run.status_text = "active")

\* getRecentActiveTestRuns: [throws, log, runs]
getRecentActiveTestRuns(answer) ==
    IF ~answer.ok
    THEN [throws |-> LocalError(CouldntGetActive), log |-> {CouldntGetActive},
          runs |-> <<>>]
    ELSE IF ~answer.defined \/ answer.total = 0 \/ ~answer.hasEntities
         THEN [throws |-> NoError, log |-> {}, runs |-> <<>>]
         ELSE [throws |-> NoError, log |-> {}, runs |-> ActiveOf(answer.entities)]

CouldntCreateInProject == "Couldn't create a qase test run in the project"

\* createQaseTestRun without the check of lines 136-140
requireRunIdUnchecked(id) == [throws |-> NoError, log |-> {}]

\* createQaseTestRun, lines 136-140: [throws, log] for the stored run id
requireRunId(id) ==
    IF id = NoId
    THEN [throws |-> LocalError(CouldntCreateInProject),
          log |-> {CouldntCreateInProject}]
    ELSE [throws |-> NoError, log |-> {}]

\* the reply to call n joins what the handler has seen: fulfilled with a
\* value (value), fulfilled without one, or rejected with an error
Seen(answer, n, value) ==
    LET listing == answer.ok /\ "project" \in DOMAIN answer
    IN  Append(replies,
           [call |-> n, ok |-> answer.ok, value |-> answer.ok /\ value,
            error |-> IF answer.ok THEN NoError ELSE SdkError(n, answer.shape),
            id |-> IF answer.ok /\ "id" \in DOMAIN answer THEN answer.id ELSE NoId,
            listed |-> IF listing THEN answer.entities ELSE <<>>,
            project |-> IF listing THEN answer.project ELSE <<>>])

(* ------------------------------ run-begin ------------------------------- *)
\* a handler starts: nothing thrown, rejected or logged yet
HandlerStarts(name) ==
    /\ handler' = name
    /\ thrown' = NoError
    /\ replies' = <<>>
    /\ errorLog' = {}
    /\ lastTest' = NoTest

\* _mochaBegin up to its first await: projects.getProject
MochaBegin ==
    /\ pc = "constructed"
    /\ "begin" \in subscribed
    /\ HandlerStarts("begin")
    /\ IssueFirst(Call("getProject", NoId, <<>>))
    /\ pc' = "getProject"
    /\ UNCHANGED <<qaseTestRunId, currentSuiteName, indents, results, openSuites,
                   activeRuns, pendingError, testEnds>>
    /\ UNCHANGED config
    /\ UNCHANGED reporting

\* ensureQaseProjectExists returns or throws; createQaseTestRun starts
GetProjectSettles(answer) ==
    /\ pc = "getProject"
    /\ LET r == ensureQaseProjectExists(answer, Len(calls))
       IN  /\ replies' = Seen(answer, Len(calls), answer.defined)
           /\ errorLog' = errorLog \cup r.log
           /\ IF r.throws = NoError
              THEN /\ Issue(Call("createRun", NoId, <<>>))
                   /\ pc' = "createRun"
                   /\ thrown' = thrown
              ELSE /\ Settle
                   /\ Finish("running", r.throws)
    /\ UNCHANGED <<handler, qaseTestRunId, currentSuiteName, indents, results, openSuites,
                   activeRuns, pendingError, testEnds, lastTest>>
    /\ UNCHANGED config
    /\ UNCHANGED reporting

NoRunId == "No qase test run id"

\* completeActiveRuns, the loop: complete the next run of `runs`, or, when
\* none is left, createQaseTestRun retries the creation
CompleteNext(runs) ==
    IF runs = <<>>
    THEN /\ Issue(Call("createRun", NoId, <<>>))
         /\ pc' = "retryCreateRun"
         /\ activeRuns' = <<>>
         /\ thrown' = thrown
    ELSE IF Head(runs).id = NoId
         THEN /\ Settle
              /\ Finish("running", LocalError(NoRunId))
              /\ activeRuns' = <<>>
         ELSE /\ Issue(Call("completeRun", Head(runs).id, <<>>))
              /\ pc' = "completeTestRun"
              /\ activeRuns' = Tail(runs)
              /\ thrown' = thrown

\* the first createTestRun settles
CreateRunSettles(answer) ==
    /\ pc = "createRun"
    /\ replies' = Seen(answer, Len(calls), answer.id # NoId)
    /\ LET r == createTestRun(answer, Len(calls))
       IN  IF r.throws # NoError
           THEN /\ Settle
                /\ Finish("running", r.throws)
                /\ UNCHANGED <<qaseTestRunId, errorLog>>
           ELSE IF r.testRunNumber # NoId
                THEN /\ qaseTestRunId' = r.testRunNumber
                     /\ Settle
                     /\ Finish("running", requireRunId(r.testRunNumber).throws)
                     /\ errorLog' = errorLog \cup requireRunId(r.testRunNumber).log
                ELSE /\ Issue(Call("getRuns", NoId, <<>>))
                     /\ pc' = "getRuns"
                     /\ UNCHANGED <<qaseTestRunId, errorLog, thrown>>
    /\ UNCHANGED <<handler, currentSuiteName, indents, results, openSuites, activeRuns,
                   pendingError, testEnds, lastTest>>
    /\ UNCHANGED config
    /\ UNCHANGED reporting

\* runs.getRuns settles: the cleanup pass starts on the active runs
GetRunsSettles(answer) ==
    /\ pc = "getRuns"
    /\ replies' = Seen(answer, Len(calls), answer.defined)
    /\ LET r == getRecentActiveTestRuns(answer)
       IN  /\ errorLog' = errorLog \cup r.log
           /\ IF r.throws # NoError
              THEN /\ Settle
                   /\ Finish("running", r.throws)
                   /\ activeRuns' = <<>>
              ELSE CompleteNext(r.runs)
    /\ UNCHANGED <<handler, qaseTestRunId, currentSuiteName, indents, results, openSuites,
                   pendingError, testEnds, lastTest>>
    /\ UNCHANGED config
    /\ UNCHANGED reporting

\* completeTestRun of one stale run settles
CompleteTestRunSettles(answer) ==
    /\ pc = "completeTestRun"
    /\ replies' = Seen(answer, Len(calls), TRUE)
    /\ IF answer.ok
       THEN CompleteNext(activeRuns)
       ELSE /\ Settle
            /\ Finish("running", SdkError(Len(calls), answer.shape))
            /\ activeRuns' = <<>>
    /\ UNCHANGED <<handler, qaseTestRunId, currentSuiteName, indents, results, openSuites,
                   pendingError, errorLog, testEnds, lastTest>>
    /\ UNCHANGED config
    /\ UNCHANGED reporting

\* the retried createTestRun settles, and a second limit answer starts the
\* cleanup again (createQaseTestRun calling itself)
RetryCreateRunSettlesAgain(answer) ==
    /\ pc = "retryCreateRun"
    /\ replies' = Seen(answer, Len(calls), answer.id # NoId)
    /\ LET r == createTestRun(answer, Len(calls))
       IN  IF r.throws # NoError
           THEN /\ Settle
                /\ Finish("running", r.throws)
                /\ UNCHANGED qaseTestRunId
           ELSE IF r.limit
                THEN /\ Issue(Call("getRuns", NoId, <<>>))
                     /\ pc' = "getRuns"
                     /\ UNCHANGED <<qaseTestRunId, thrown>>
                ELSE /\ Settle
                     /\ qaseTestRunId' = r.testRunNumber
                     /\ Finish("running", NoError)
    /\ UNCHANGED <<handler, currentSuiteName, indents, results, openSuites,
                   activeRuns, pendingError, errorLog, testEnds, lastTest>>
    /\ UNCHANGED config
    /\ UNCHANGED reporting

\* the retried createTestRun settles; createQaseTestRun ends
RetryCreateRunSettles(answer) ==
    /\ pc = "retryCreateRun"
    /\ replies' = Seen(answer, Len(calls), answer.id # NoId)
    /\ Settle
    /\ LET r == createTestRun(answer, Len(calls))
       IN  IF r.throws # NoError
           THEN /\ Finish("running", r.throws)
                /\ UNCHANGED <<qaseTestRunId, errorLog>>
           ELSE /\ qaseTestRunId' = r.testRunNumber
                /\ Finish("running", requireRunId(r.testRunNumber).throws)
                /\ errorLog' = errorLog \cup requireRunId(r.testRunNumber).log
    /\ UNCHANGED <<handler, currentSuiteName, indents, results, openSuites, activeRuns,
                   pendingError, testEnds, lastTest>>
    /\ UNCHANGED config
    /\ UNCHANGED reporting

(* --------------------------- suites and tests --------------------------- *)
\* decreaseIndent that leaves the counter as it is
decreaseIndentMissing(n) == n

\* this._indents++
increaseIndent(n) == n + 1

\* this._indents--
decreaseIndent(n) == n - 1

\* _mochaSuiteBegin that starts the suite with an empty buffer
MochaSuiteBeginFlushing(title) ==
    /\ pc = "running"
    /\ "suiteBegin" \in subscribed
    /\ Len(openSuites) < MaxDepth
    /\ HandlerStarts("suiteBegin")
    /\ indents' = increaseIndent(indents)
    /\ currentSuiteName' = title
    /\ openSuites' = Append(openSuites, title)
    /\ results' = <<>>
    /\ UNCHANGED <<pc, qaseTestRunId, calls, inflight, activeRuns,
                   pendingError, testEnds>>
    /\ UNCHANGED config
    /\ UNCHANGED reporting

\* _mochaSuiteBegin
MochaSuiteBegin(title) ==
    /\ pc = "running"
    /\ "suiteBegin" \in subscribed
    /\ Len(openSuites) < MaxDepth
    /\ HandlerStarts("suiteBegin")
    /\ indents' = increaseIndent(indents)
    /\ currentSuiteName' = title
    /\ openSuites' = Append(openSuites, title)
    /\ UNCHANGED <<pc, qaseTestRunId, results, calls, inflight, activeRuns,
                   pendingError, testEnds>>
    /\ UNCHANGED config
    /\ UNCHANGED reporting

\* _mochaSuiteEnd
MochaSuiteEnd ==
    /\ pc = "running"
    /\ "suiteEnd" \in subscribed
    /\ openSuites # <<>>
    /\ HandlerStarts("suiteEnd")
    /\ indents' = decreaseIndent(indents)
    /\ currentSuiteName' = Undefined
    /\ openSuites' = SubSeq(openSuites, 1, Len(openSuites) - 1)
    /\ UNCHANGED <<pc, qaseTestRunId, results, calls, inflight, activeRuns,
                   pendingError, testEnds>>
    /\ UNCHANGED config
    /\ UNCHANGED reporting

UnknownResult == "Unknown test case result"

\* resultForTestCase whose last branch is a plain else
resultForTestCaseElseSkipped(test) ==
    IF test.state = "passed" THEN [throws |-> NoError, result |-> "passed"]
    ELSE IF test.state = "failed" THEN [throws |-> NoError, result |-> "failed"]
    ELSE [throws |-> NoError, result |-> "skipped"]

\* resultForTestCase: [throws, result]
resultForTestCase(test) ==
    IF test.state = "passed" THEN [throws |-> NoError, result |-> "passed"]
    ELSE IF test.state = "failed" THEN [throws |-> NoError, result |-> "failed"]
    ELSE IF test.state = "pending" THEN [throws |-> NoError, result |-> "skipped"]
    ELSE [throws |-> LocalError(UnknownResult), result |-> Undefined]

\* the record _mochaTestEnd pushes
CaseResult(suite, test, result) ==
    [suiteName |-> suite, testCaseTitle |-> test.title,
     testCaseResult |-> result, testCaseDuration |-> test.duration]

\* _mochaTestEnd that buffers nothing for a pending test
MochaTestEndPendingDropped(test) ==
    /\ pc = "running"
    /\ "testEnd" \in subscribed
    /\ openSuites # <<>>
    /\ testEnds < MaxTests
    /\ testEnds' = testEnds + 1
    /\ lastTest' = test
    /\ handler' = "testEnd"
    /\ replies' = <<>>
    /\ errorLog' = {}
    /\ LET r == resultForTestCase(test)
       IN  /\ thrown' = r.throws
           /\ results' = IF r.throws # NoError \/ r.result = "skipped" THEN results
                         ELSE Append(results, CaseResult(currentSuiteName, test, r.result))
    /\ UNCHANGED <<pc, qaseTestRunId, currentSuiteName, indents, openSuites,
                   calls, inflight, activeRuns, pendingError>>
    /\ UNCHANGED config
    /\ stats' = statsAfter(stats, test)
    /\ UNCHANGED summary

\* _mochaTestEnd: the host emits test-end inside an open suite
MochaTestEnd(test) ==
    /\ pc = "running"
    /\ "testEnd" \in subscribed
    /\ openSuites # <<>>
    /\ testEnds < MaxTests
    /\ testEnds' = testEnds + 1
    /\ lastTest' = test
    /\ handler' = "testEnd"
    /\ replies' = <<>>
    /\ errorLog' = {}
    /\ LET r == resultForTestCase(test)
       IN  /\ thrown' = r.throws
           /\ results' = IF r.throws # NoError THEN results
                         ELSE Append(results, CaseResult(currentSuiteName, test, r.result))
    /\ UNCHANGED <<pc, qaseTestRunId, currentSuiteName, indents, openSuites,
                   calls, inflight, activeRuns, pendingError>>
    /\ UNCHANGED config
    /\ stats' = statsAfter(stats, test)
    /\ UNCHANGED summary

(* ------------------------------- run-end -------------------------------- *)
\* uploadResults, lines 236-245: the status sent for a buffered result
statusOf(testCaseResult) == IF testCaseResult = "passed" THEN "passed" ELSE "failed"

ResultCreate(r) ==
    [status |-> statusOf(r.testCaseResult), suite_title |-> r.suiteName,
     title |-> r.testCaseTitle, time_ms |-> r.testCaseDuration]

qaseResults(buffer) == [i \in 1..Len(buffer) |-> ResultCreate(buffer[i])]

UploadFailed == "Error uploading qase test results"

\* uploadResults, lines 254-259: [throws, log] for a rejected bulk upload
uploadRejected(error) ==
    IF extractErrorResponse(error).throws
    THEN [throws |-> error, log |-> {}]
    ELSE [throws |-> [LocalError(UploadFailed) EXCEPT !.status = error.status],
          log |-> {UploadFailed}]

\* try { ... } finally { ... }: what leaves the statement
finally(tryError, finallyError) ==
    IF finallyError # NoError THEN finallyError ELSE tryError

\* _mochaRunEnd whose steps do not look at the stored run id
MochaRunEndUnguarded ==
    /\ pc = "running"
    /\ "runEnd" \in subscribed
    /\ openSuites = <<>>
    /\ handler' = "runEnd"
    /\ replies' = <<>>
    /\ errorLog' = {}
    /\ lastTest' = NoTest
    /\ IssueFirst(Call("createResultBulk", qaseTestRunId, qaseResults(results)))
    /\ pc' = "createResultBulk"
    /\ thrown' = NoError
    /\ UNCHANGED <<qaseTestRunId, currentSuiteName, indents, results, openSuites,
                   activeRuns, pendingError, testEnds>>
    /\ UNCHANGED config
    /\ UNCHANGED reporting

\* _mochaRunEnd up to its first await.  Without a run id uploadResults and
\* endCurrentTestRun both throw before any call
MochaRunEnd ==
    /\ pc = "running"
    /\ "runEnd" \in subscribed
    /\ openSuites = <<>>
    /\ handler' = "runEnd"
    /\ replies' = <<>>
    /\ errorLog' = {}
    /\ lastTest' = NoTest
    /\ IF qaseTestRunId = NoId
       THEN /\ Finish("ended", finally(LocalError(NoRunId), LocalError(NoRunId)))
            /\ UNCHANGED <<calls, inflight>>
       ELSE /\ IssueFirst(Call("createResultBulk", qaseTestRunId, qaseResults(results)))
            /\ pc' = "createResultBulk"
            /\ thrown' = NoError
    /\ UNCHANGED <<qaseTestRunId, currentSuiteName, indents, results, openSuites,
                   activeRuns, pendingError, testEnds>>
    /\ UNCHANGED config
    /\ UNCHANGED reporting

\* createResultBulk settles, but the completion is not in a finally block:
\* a rejected upload leaves the handler at once
UploadSettlesWithoutFinally(answer) ==
    /\ pc = "createResultBulk"
    /\ replies' = Seen(answer, Len(calls), TRUE)
    /\ LET r == IF answer.ok THEN [throws |-> NoError, log |-> {}]
                ELSE uploadRejected(SdkError(Len(calls), answer.shape))
       IN  /\ errorLog' = errorLog \cup r.log
           /\ IF r.throws = NoError
              THEN /\ Issue(Call("completeRun", qaseTestRunId, <<>>))
                   /\ pc' = "completeRun"
                   /\ UNCHANGED thrown
              ELSE /\ Settle
                   /\ Finish("ended", r.throws)
           /\ pendingError' = NoError
    /\ UNCHANGED <<handler, qaseTestRunId, currentSuiteName, indents, results,
                   openSuites, activeRuns, testEnds, lastTest>>
    /\ UNCHANGED config
    /\ UNCHANGED reporting

\* createResultBulk settles and the uploaded results are dropped from the buffer
UploadSettlesClearing(answer) ==
    /\ pc = "createResultBulk"
    /\ replies' = Seen(answer, Len(calls), TRUE)
    /\ LET r == IF answer.ok THEN [throws |-> NoError, log |-> {}]
                ELSE uploadRejected(SdkError(Len(calls), answer.shape))
       IN  /\ errorLog' = errorLog \cup r.log
           /\ pendingError' = r.throws
    /\ Issue(Call("completeRun", qaseTestRunId, <<>>))
    /\ pc' = "completeRun"
    /\ results' = <<>>
    /\ UNCHANGED <<handler, qaseTestRunId, currentSuiteName, indents, openSuites,
                   activeRuns, thrown, testEnds, lastTest>>
    /\ UNCHANGED config
    /\ UNCHANGED reporting

\* createResultBulk settles; the finally block starts endCurrentTestRun
UploadSettles(answer) ==
    /\ pc = "createResultBulk"
    /\ replies' = Seen(answer, Len(calls), TRUE)
    /\ LET r == IF answer.ok THEN [throws |-> NoError, log |-> {}]
                ELSE uploadRejected(SdkError(Len(calls), answer.shape))
       IN  /\ errorLog' = errorLog \cup r.log
           /\ pendingError' = r.throws
    /\ Issue(Call("completeRun", qaseTestRunId, <<>>))
    /\ pc' = "completeRun"
    /\ UNCHANGED <<handler, qaseTestRunId, currentSuiteName, indents, results, openSuites,
                   activeRuns, thrown, testEnds, lastTest>>
    /\ UNCHANGED config
    /\ UNCHANGED reporting

\* completeRun of the current run settles; _mochaRunEnd ends
CompleteRunSettles(answer) ==
    /\ pc = "completeRun"
    /\ replies' = Seen(answer, Len(calls), TRUE)
    /\ Settle
    /\ Finish("ended",
              finally(pendingError,
                      IF answer.ok THEN NoError
                      ELSE SdkError(Len(calls), answer.shape)))
    /\ pendingError' = NoError
    /\ UNCHANGED <<handler, qaseTestRunId, currentSuiteName, indents, results, openSuites,
                   activeRuns, errorLog, testEnds, lastTest>>
    /\ UNCHANGED config
    /\ summary' = IF finally(pendingError,
                              IF answer.ok THEN NoError
                              ELSE SdkError(Len(calls), answer.shape)) = NoError
                   THEN Append(summary, summaryOf(stats))
                   ELSE summary
    /\ UNCHANGED stats

(* --------------------------- specification ------------------------------ *)
Next ==
    \/ Construct
    \/ MochaBegin
    \/ \E answer \in ProjectAnswers : GetProjectSettles(answer)
    \/ \E answer \in CreateRunAnswers : CreateRunSettles(answer)
    \/ \E answer \in GetRunsAnswers : GetRunsSettles(answer)
    \/ \E answer \in PlainAnswers : CompleteTestRunSettles(answer)
    \/ \E answer \in CreateRunAnswers : RetryCreateRunSettles(answer)
    \/ \E title \in SuiteTitles : MochaSuiteBegin(title)
    \/ MochaSuiteEnd
    \/ \E test \in Tests : MochaTestEnd(test)
    \/ MochaRunEnd
    \/ \E answer \in PlainAnswers : UploadSettles(answer)
    \/ \E answer \in PlainAnswers : CompleteRunSettles(answer)

Spec == Init /\ [][Next]_vars

\* the same reporter, constructed in an environment of any shape
SpecAnyEnv == InitAnyEnv /\ [][Next]_vars

TypeOK ==
    /\ pc \in {"new", "failed", "constructed", "getProject", "createRun", "getRuns",
               "completeTestRun", "retryCreateRun", "running",
               "createResultBulk", "completeRun", "ended"}
    /\ qaseTestRunId \in NewIds \cup {NoId}
    /\ indents \in Int
    /\ inflight \in Int
    /\ testEnds \in 0..MaxTests
    /\ stats \in [passes : 0..MaxTests, failures : 0..MaxTests, pending : 0..MaxTests]
    /\ Len(summary) <= 1

(* ------------------------ vocabulary of the claims ---------------------- *)
CallsOf(op) == {i \in DOMAIN calls : calls[i].op = op}

\* the completeRun calls made for run `run`
CompletionsOf(run) == {i \in CallsOf("completeRun") : calls[i].run = run}

\* the replies the current handler got from calls of operation op
RepliesTo(op) == {k \in DOMAIN replies : calls[replies[k].call].op = op}

Rejected(op) == {k \in RepliesTo(op) : ~replies[k].ok}

\* an error that carries the active-run-limit answer of the service
ReportsLimit(e) ==
    e.hasResponse /\ e.status = 403 /\ e.message = "Limit of Active Runs exceeded"

\* the run-begin handler has returned or thrown, and no handler ran since
BeginDone == handler = "begin" /\ pc = "running"

\* the run-end handler has returned or thrown
RunEndDone == handler = "runEnd" /\ pc = "ended"

\* the first run-creation call of run-begin was answered with the limit
FirstCreationHitLimit ==
    /\ handler = "begin"
    /\ \E k \in Rejected("createRun") :
          /\ \A i \in CallsOf("createRun") : replies[k].call <= i
          /\ ReportsLimit(replies[k].error)

(* -------------------------------- claims -------------------------------- *)
\* C1: once run-end has been handled for a run that run-begin created, the
\* completion call for that run (completeRun with the stored run id) has been
\* made exactly once, whether the bulk upload was fulfilled or rejected; it
\* is never made twice.
C1_CompletionExactlyOnce ==
    qaseTestRunId # NoId =>
        /\ Cardinality(CompletionsOf(qaseTestRunId)) <= 1
        /\ RunEndDone => Cardinality(CompletionsOf(qaseTestRunId)) = 1
        /\ pc \in {"running", "createResultBulk"} => CompletionsOf(qaseTestRunId) = {}

\* C1 witness: run-end is over, the upload was rejected and the run completed once
C1_Witness ==
    /\ RunEndDone
    /\ qaseTestRunId # NoId
    /\ Rejected("createResultBulk") # {}
    /\ Cardinality(CompletionsOf(qaseTestRunId)) = 1

\* C3 as stated: after a first creation answered with the limit, run-begin
\* ends having made exactly one listing and exactly two creation calls.
C3_OneCleanupThenOneRetry ==
    (BeginDone /\ FirstCreationHitLimit) =>
        /\ Cardinality(CallsOf("getRuns")) = 1
        /\ Cardinality(CallsOf("createRun")) = 2

\* the cleanup pass ended in an error: the listing or a completion was rejected,
\* or a listed active run had no id
CleanupFailed ==
    \/ Rejected("getRuns") # {}
    \/ Rejected("completeRun") # {}
    \/ thrown = LocalError(NoRunId)

\* C3 amended: after a first creation answered with the limit exactly one
\* cleanup pass is started; if it ends without error exactly one retry of the
\* creation follows it, issued only after the listing and every completion of
\* the pass have settled; there is never a second listing or a third creation.
C3_Amended ==
    /\ Cardinality(CallsOf("getRuns")) <= 1
    /\ Cardinality(CallsOf("createRun")) <= 2
    /\ \A i, j \in CallsOf("createRun") :
          i < j => /\ \E g \in CallsOf("getRuns") : i < g /\ g < j
                   /\ \A c \in CallsOf("completeRun") :
                         calls[c].run \in StaleIds => c < j
    /\ pc = "retryCreateRun" => activeRuns = <<>> /\ inflight = 1
    /\ FirstCreationHitLimit => Cardinality(CallsOf("getRuns")) = 1
    /\ (BeginDone /\ FirstCreationHitLimit /\ ~CleanupFailed) =>
          Cardinality(CallsOf("createRun")) = 2
    /\ (BeginDone /\ FirstCreationHitLimit /\ CleanupFailed) =>
          Cardinality(CallsOf("createRun")) = 1

\* C3 witness: limit, a cleanup pass that completed two stale runs, one retry
C3_Witness ==
    /\ BeginDone
    /\ FirstCreationHitLimit
    /\ Cardinality(CallsOf("completeRun")) = 2
    /\ Cardinality(CallsOf("createRun")) = 2
    /\ qaseTestRunId # NoId

\* the project lookup of run-begin was answered 404
ProjectNotFound ==
    /\ handler = "begin"
    /\ \E k \in Rejected("getProject") :
          replies[k].error.hasResponse /\ replies[k].error.status = 404

\* C4: when the project lookup answers 404, run-begin throws an error and the
\* lookup stays the only remote call: no run is created, nothing is in flight.
C4_NotFoundHaltsBeforeCreation ==
    ProjectNotFound =>
        /\ pc = "running"
        /\ thrown # NoError
        /\ Len(calls) = 1
        /\ inflight = 0
        /\ qaseTestRunId = NoId

\* C4 witness: run-begin is over after a 404 lookup
C4_Witness == ProjectNotFound /\ BeginDone /\ MustCreateProject \in errorLog

\* C2: once run-end has issued its upload for the created run, there is exactly
\* one bulk upload, addressed to that run, with one entry per buffered result in
\* buffer order, and every entry's status is the outcome classified at test-end
\* (passed as passed, failed as failed, skipped as skipped).
C2_UploadMirrorsBuffer ==
    (qaseTestRunId # NoId /\ pc \in {"createResultBulk", "completeRun", "ended"}) =>
        /\ Cardinality(CallsOf("createResultBulk")) = 1
        /\ \A i \in CallsOf("createResultBulk") :
              /\ calls[i].run = qaseTestRunId
              /\ Len(calls[i].results) = Len(results)
              /\ \A j \in 1..Len(results) :
                    /\ calls[i].results[j].title = results[j].testCaseTitle
                    /\ calls[i].results[j].status = results[j].testCaseResult

\* C5 as stated: the buffer is as long as the number of test-end events seen.
C5_BufferCountsTestEnds == Len(results) = testEnds

RecognisedStates == {"passed", "failed", "pending"}

\* C5 amended: a test-end event whose test reports passed, failed or pending
\* appends exactly one record to the buffer, a test-end event for a test in no
\* such state appends none, and no other step changes the buffer; the buffer
\* is never longer than the number of test-end events seen.
C5_Amended ==
    /\ [](Len(results) <= testEnds)
    /\ [][IF testEnds' # testEnds /\ lastTest'.state \in RecognisedStates
          THEN /\ Len(results') = Len(results) + 1
               /\ SubSeq(results', 1, Len(results)) = results
               /\ results'[Len(results')].testCaseTitle = lastTest'.title
          ELSE results' = results]_vars

\* C5 witness: two test-end events, one of them for an unrecognised state
C5_Witness == testEnds = 2 /\ Len(results) = 1 /\ handler = "testEnd"

\* the outcome the claim assigns to each recognised state
ExpectedOutcome(state) ==
    CASE state = "passed" -> "passed"
      [] state = "failed" -> "failed"
      [] state = "pending" -> "skipped"

\* C6: test-end classifies passed as 'passed', failed as 'failed' and pending
\* as 'skipped' and buffers that outcome; for a test in none of these states
\* it throws, buffers nothing, and the buffer never holds any other value.
C6_Classifier ==
    /\ [](\A i \in DOMAIN results :
            results[i].testCaseResult \in {"passed", "failed", "skipped"})
    /\ [](handler = "testEnd" =>
            IF lastTest.state \in RecognisedStates
            THEN /\ thrown = NoError
                 /\ results # <<>>
                 /\ results[Len(results)].testCaseResult = ExpectedOutcome(lastTest.state)
            ELSE thrown = LocalError(UnknownResult))
    /\ [][(testEnds' # testEnds /\ lastTest'.state \notin RecognisedStates)
             => results' = results]_vars

\* C6 witness: a test in no recognised state ended after a buffered one
C6_Witness ==
    /\ handler = "testEnd"
    /\ lastTest.state = "none"
    /\ thrown = LocalError(UnknownResult)
    /\ Len(results) = 1
    /\ results[1].testCaseResult = "skipped"

\* the retry of the creation was answered with the limit again, or without an id
RetryYieldsNoId ==
    /\ FirstCreationHitLimit
    /\ \E k \in RepliesTo("createRun") :
          /\ \E i \in CallsOf("createRun") : i < replies[k].call
          /\ \/ ReportsLimit(replies[k].error)
             \/ replies[k].ok /\ ~replies[k].value

\* C7: when the retry after the cleanup yields no run id, run-begin throws, the
\* stored run id stays undefined and the two creation calls stay the only ones.
C7_RetryFailureIsFatal ==
    /\ Cardinality(CallsOf("createRun")) <= 2
    /\ RetryYieldsNoId =>
          /\ pc = "running"
          /\ thrown # NoError
          /\ qaseTestRunId = NoId
          /\ inflight = 0
          /\ Cardinality(CallsOf("createRun")) = 2
    /\ (pc \in {"running", "createResultBulk", "completeRun", "ended"}
        /\ qaseTestRunId = NoId /\ handler = "begin") => thrown # NoError

\* C7 witness: the retry hit the limit again and run-begin threw
C7_Witness ==
    /\ RetryYieldsNoId
    /\ BeginDone
    /\ thrown = LocalError(CouldntCreateInProject)
    /\ Cardinality(CallsOf("completeRun")) = 1

\* the operation reply k answers
OpOf(k) == calls[replies[k].call].op

\* the two failures the reporter recovers from: a 404 on the project lookup
\* and the active-run limit on a run creation
Recovered(k) ==
    \/ OpOf(k) = "getProject" /\ replies[k].error.hasResponse
                              /\ replies[k].error.status = 404
    \/ OpOf(k) = "createRun" /\ ReportsLimit(replies[k].error)

\* a handler that makes remote calls has returned or thrown
RemoteHandlerDone == BeginDone \/ RunEndDone

\* C8 as stated: every other rejection of a remote call is what the handler throws.
C8_PropagatedVerbatim ==
    RemoteHandlerDone =>
        \A k \in DOMAIN replies :
            (~replies[k].ok /\ ~Recovered(k)) => thrown = replies[k].error

\* the error uploadResults throws in place of a rejection that has a response
UploadError(status) == [LocalError(UploadFailed) EXCEPT !.status = status]

\* C8 amended: a rejection of the project lookup, of a run creation, of a
\* stale-run completion or of the run completion, other than the two recovered
\* ones, is thrown out of the handler unchanged.  A rejected listing is logged
\* and replaced by a new error; a rejected bulk upload that has a response is
\* logged and replaced by a new error carrying its status, one without a
\* response is thrown unchanged; and either is superseded by the error of a
\* run completion that is rejected after it.
C8_Amended ==
    RemoteHandlerDone =>
        \A k \in DOMAIN replies :
            (~replies[k].ok /\ ~Recovered(k)) =>
                CASE OpOf(k) \in {"getProject", "createRun", "completeRun"} ->
                        thrown = replies[k].error
                  [] OpOf(k) = "getRuns" ->
                        /\ thrown = LocalError(CouldntGetActive)
                        /\ CouldntGetActive \in errorLog
                  [] OpOf(k) = "createResultBulk" ->
                        IF Rejected("completeRun") # {}
                        THEN \E c \in Rejected("completeRun") : thrown = replies[c].error
                        ELSE IF replies[k].error.hasResponse
                             THEN /\ thrown = UploadError(replies[k].error.status)
                                  /\ UploadFailed \in errorLog
                             ELSE thrown = replies[k].error

\* C8 witness: run-begin threw the very error a run creation was rejected with
C8_Witness ==
    /\ BeginDone
    /\ \E k \in Rejected("createRun") :
          /\ replies[k].error.status = 403
          /\ replies[k].error.message = "Forbidden"
          /\ thrown = replies[k].error

AwaitStates ==
    {"getProject", "createRun", "getRuns", "completeTestRun", "retryCreateRun",
     "createResultBulk", "completeRun"}

\* the stage of the run a remote call belongs to: project check, run creation
\* (with its cleanup and retry), bulk upload, run completion
Stage(c) ==
    CASE c.op = "getProject" -> 1
      [] c.op \in {"createRun", "getRuns"} -> 2
      [] c.op = "completeRun" /\ c.run \in StaleIds -> 2
      [] c.op = "createResultBulk" -> 3
      [] OTHER -> 4

\* the calls the current handler has issued
IssuedByHandler ==
    IF handler = "begin" THEN DOMAIN calls
    ELSE IF handler = "runEnd"
         THEN {i \in DOMAIN calls : Stage(calls[i]) >= 3}
         ELSE {}

\* C9: at most one remote call is in flight, and only while the handler waits
\* for it; every call but the one in flight has settled before the next was
\* issued; the calls are made in the order project check, run creation, bulk
\* upload, run completion, and the completion of a run follows its upload.
C9_OneCallAtATime ==
    /\ inflight \in {0, 1}
    /\ inflight = 1 <=> pc \in AwaitStates
    /\ {replies[k].call : k \in DOMAIN replies}
          = {i \in IssuedByHandler : i <= Len(calls) - inflight}
    /\ \A k, l \in DOMAIN replies : k < l => replies[k].call < replies[l].call
    /\ \A i, j \in DOMAIN calls : i < j => Stage(calls[i]) <= Stage(calls[j])
    /\ Cardinality(CallsOf("getProject")) <= 1
    /\ \A c \in CallsOf("completeRun") :
          calls[c].run \notin StaleIds =>
              /\ calls[c].run = qaseTestRunId
              /\ \E b \in CallsOf("createResultBulk") :
                    b < c /\ calls[b].run = calls[c].run

\* C9 witness: the completion of the run is in flight after a cleanup pass,
\* a retry and the upload
C9_Witness ==
    /\ pc = "completeRun"
    /\ inflight = 1
    /\ Cardinality(CallsOf("createRun")) = 2
    /\ Cardinality(CallsOf("completeRun")) = 3
    /\ Len(results) = 2

\* C10: when the bulk upload is rejected at run-end, the failure is written to
\* the error console or thrown out of the handler (as it is or as the error
\* made from it), and the completion call has been made, whatever the upload
\* error is and whether or not the completion is rejected too.
C10_UploadFailureSurfaced ==
    RunEndDone =>
        \A k \in Rejected("createResultBulk") :
            /\ \/ UploadFailed \in errorLog
               \/ thrown = replies[k].error
               \/ thrown = UploadError(replies[k].error.status)
            /\ CompletionsOf(qaseTestRunId) # {}

\* a required environment variable is unset
MissingRequired ==
    \E i \in DOMAIN RequiredEnvVars : env[RequiredEnvVars[i]] = Undefined

C12_TaggedWithInnermostSuite ==
    (handler = "testEnd" /\ lastTest.state \in RecognisedStates) =>
        /\ results # <<>>
        /\ openSuites # <<>>
        /\ results[Len(results)].suiteName = openSuites[Len(openSuites)]

\* C13 as stated: once run-end has made the bulk upload, the buffer is empty.
C13_BufferEmptyAfterUpload ==
    (RunEndDone /\ CallsOf("createResultBulk") # {}) => results = <<>>

\* C13 amended: the buffer is held in memory only and run-end never empties
\* it: no step of the run-end handler changes the buffer, which after the
\* upload still holds every result that was uploaded.
C13_Amended ==
    /\ [][handler' = "runEnd" => results' = results]_vars
    /\ [](\A b \in CallsOf("createResultBulk") :
            /\ Len(calls[b].results) = Len(results)
            /\ \A j \in 1..Len(results) :
                  calls[b].results[j].title = results[j].testCaseTitle)

\* C13 witness: run-end is over, two results were uploaded and are still buffered
C13_Witness ==
    /\ RunEndDone
    /\ CallsOf("createResultBulk") # {}
    /\ Len(results) = 2

\* the buffered results classified as `result`
ResultsOf(result) == {i \in DOMAIN results : results[i].testCaseResult = result}

\* every test the host has seen ended as passed, failed or pending
AllTestsCounted == stats.passes + stats.failures + stats.pending = testEnds

\* C14 as stated: the summary printed at run-end is passed/total where total
\* is the number of tests seen.
C14_TotalIsTestsSeen ==
    (AllTestsCounted /\ summary # <<>>) =>
        \A i \in DOMAIN summary : summary[i].total = testEnds

\* C14 amended: the summary is printed once, and only by a run-end that
\* throws nothing; it is passed/(passed + failed): skipped tests count in
\* neither number.
C14_Amended ==
    /\ summary # <<>> <=> (RunEndDone /\ thrown = NoError)
    /\ (AllTestsCounted /\ summary # <<>>) =>
          /\ Len(summary) = 1
          /\ summary[1].passes = Cardinality(ResultsOf("passed"))
          /\ summary[1].total =
                Cardinality(ResultsOf("passed")) + Cardinality(ResultsOf("failed"))

\* C14 witness: one test passed, one was skipped, and the summary is 1/1
C14_Witness ==
    /\ RunEndDone
    /\ AllTestsCounted
    /\ testEnds = 2
    /\ Cardinality(ResultsOf("skipped")) = 1
    /\ summary = <<[passes |-> 1, total |-> 1]>>

\* the ids of the runs of `runs` whose status is active, in listing order
RECURSIVE ActiveIdsOf(_)
ActiveIdsOf(runs) ==
    IF runs = <<>> THEN <<>>
    ELSE IF Head(runs).status_text = "active"
         THEN <<Head(runs).id>> \o ActiveIdsOf(Tail(runs))
         ELSE ActiveIdsOf(Tail(runs))

\* the run ids the completion calls were made for, in call order
RECURSIVE CompletedFrom(_)
CompletedFrom(i) ==
    IF i > Len(calls) THEN <<>>
    ELSE IF calls[i].op = "completeRun"
         THEN <<calls[i].run>> \o CompletedFrom(i + 1)
         ELSE CompletedFrom(i + 1)

IsPrefix(s, t) == Len(s) <= Len(t) /\ \A i \in DOMAIN s : s[i] = t[i]

\* the cleanup pass of run-begin is over and the creation was retried
CleanupFinished == handler = "begin" /\ Cardinality(CallsOf("createRun")) = 2

\* C15 as stated: after the cleanup pass, a completion call has been issued
\* for every run of the project whose status is active.
C15_EveryActiveRunOfProject ==
    CleanupFinished =>
        \A k \in RepliesTo("getRuns") :
            (replies[k].ok /\ replies[k].listed # <<>>) =>
                \A r \in DOMAIN replies[k].project :
                    replies[k].project[r].status_text = "active" =>
                        CompletionsOf(replies[k].project[r].id) # {}

\* C15 amended: the cleanup pass completes, exactly once and one at a time
\* in listing order, the active runs among the at most 10 runs that its one
\* listing call returned, and no other run; when the listing or one of the
\* completions fails, or an active run has no id, no retry of the creation
\* is issued and run-begin fails.
C15_Amended ==
    handler = "begin" =>
        /\ CallsOf("completeRun") # {} => RepliesTo("getRuns") # {}
        /\ \A k \in RepliesTo("getRuns") :
              /\ Len(replies[k].listed) <= PageLimit
              /\ IsPrefix(replies[k].listed, replies[k].project)
              /\ IsPrefix(CompletedFrom(1), ActiveIdsOf(replies[k].listed))
              /\ \A r \in DOMAIN replies[k].listed :
                    replies[k].listed[r].status_text # "active" =>
                        CompletionsOf(replies[k].listed[r].id) = {}
              /\ CleanupFinished =>
                    /\ replies[k].ok
                    /\ Rejected("completeRun") = {}
                    /\ CompletedFrom(1) = ActiveIdsOf(replies[k].listed)
              /\ (BeginDone /\ (\/ ~replies[k].ok
                               \/ Rejected("completeRun") # {}
                               \/ CompletedFrom(1) # ActiveIdsOf(replies[k].listed))) =>
                    /\ Cardinality(CallsOf("createRun")) = 1
                    /\ thrown # NoError
                    /\ qaseTestRunId = NoId
        /\ pc = "completeTestRun" => inflight = 1

\* C15 witness: the project has an active run beyond the listed page; the
\* listed active run was completed, the other was not, the creation retried
C15_Witness ==
    /\ BeginDone
    /\ CleanupFinished
    /\ \E k \in RepliesTo("getRuns") :
          /\ Len(replies[k].project) > PageLimit
          /\ Len(replies[k].listed) = PageLimit
    /\ CompletedFrom(1) = <<1>>
    /\ CompletionsOf(2) = {}

\* the replies to the first run-creation call of run-begin
FirstCreationReplies ==
    {k \in RepliesTo("createRun") :
        \A i \in CallsOf("createRun") : replies[k].call <= i}

\* the cleanup-and-retry has been started: a listing, a completion or a
\* second creation call was made
CleanupStarted ==
    \/ CallsOf("getRuns") # {}
    \/ CallsOf("completeRun") # {}
    \/ Cardinality(CallsOf("createRun")) > 1

\* C16: during run-begin the cleanup-and-retry is started only by a first
\* run-creation failure with status 403 and a message containing 'limit of
\* active runs' in any letter case, and such a failure does start it; after
\* any other failure of the creation (another status, 403 without that
\* message, an error without a response, a fulfilled call without a run id)
\* no listing, no completion and no second creation call is made and
\* run-begin throws.
C16_OnlyLimitTriggersCleanup ==
    handler = "begin" =>
        /\ CleanupStarted => FirstCreationHitLimit
        /\ FirstCreationHitLimit => CallsOf("getRuns") # {}
        /\ \A k \in FirstCreationReplies :
              (~replies[k].value /\ ~ReportsLimit(replies[k].error)) =>
                  /\ ~CleanupStarted
                  /\ pc = "running"
                  /\ inflight = 0
                  /\ thrown # NoError
                  /\ qaseTestRunId = NoId

\* C16 witness: the creation was rejected with the limit message under
\* status 500; run-begin threw that error and made no further call
C16_Witness ==
    /\ BeginDone
    /\ \E k \in FirstCreationReplies :
          /\ replies[k].error.hasResponse
          /\ replies[k].error.status = 500
          /\ replies[k].error.message = "Limit of Active Runs exceeded"
          /\ thrown = replies[k].error
    /\ ~CleanupStarted

\* the call a step has just issued
Issued == calls'[Len(calls')]

\* the reply a step has just recorded
Replied == replies'[Len(replies')]

\* C17: every call run-end issues (the bulk upload, the completion of the
\* current run) carries the stored run id, which is defined; the stored id
\* is only ever set to the id a fulfilled run-creation call of run-begin has
\* just returned; a run-end handled without a stored id issues no call and
\* throws 'No qase test run id'.
C17_OnlyACreatedRunIsUsed ==
    /\ [][(handler' = "runEnd" /\ calls' # calls) =>
             /\ calls' = Append(calls, Issued)
             /\ Issued.op \in {"createResultBulk", "completeRun"}
             /\ Issued.run = qaseTestRunId
             /\ qaseTestRunId # NoId
             /\ CallsOf("createRun") # {}]_vars
    /\ [][qaseTestRunId' # qaseTestRunId =>
             /\ handler' = "begin"
             /\ replies' = Append(replies, Replied)
             /\ calls[Replied.call].op = "createRun"
             /\ Replied.ok
             /\ Replied.id # NoId
             /\ qaseTestRunId' = Replied.id]_vars
    /\ [](\A c \in CallsOf("createResultBulk") :
             calls[c].run = qaseTestRunId /\ calls[c].run \in NewIds)
    /\ []((RunEndDone /\ qaseTestRunId = NoId) =>
             /\ thrown = LocalError(NoRunId)
             /\ replies = <<>>
             /\ CallsOf("createResultBulk") = {}
             /\ \A c \in CallsOf("completeRun") : calls[c].run # NoId)

\* C17 witness: run-begin stored the id of its retried creation after a
\* cleanup, and run-end uploaded to and completed that run
C17_Witness ==
    /\ RunEndDone
    /\ qaseTestRunId \in NewIds
    /\ Cardinality(CallsOf("createRun")) = 2
    /\ \E b \in CallsOf("createResultBulk") : calls[b].run = qaseTestRunId
    /\ CompletionsOf(qaseTestRunId) # {}
    /\ \E c \in CallsOf("completeRun") : calls[c].run \in StaleIds

\* a step in which the host emits suite-begin or suite-end
SuiteStep == openSuites' # openSuites

\* a step in which the host emits test-end
TestEndStep == testEnds' # testEnds

\* C18: the suite-begin, suite-end and test-end handlers issue no remote
\* call and leave the stored run id unchanged; the two suite handlers leave
\* the result buffer unchanged; test-end leaves the indent counter and the
\* current suite name unchanged.
C18_LocalHandlersFrame ==
    /\ [][(SuiteStep \/ TestEndStep) =>
             /\ handler' \in {"suiteBegin", "suiteEnd", "testEnd"}
             /\ calls' = calls
             /\ inflight' = 0
             /\ qaseTestRunId' = qaseTestRunId]_vars
    /\ [][SuiteStep => results' = results]_vars
    /\ [][TestEndStep =>
             /\ indents' = indents
             /\ currentSuiteName' = currentSuiteName]_vars

\* C18 witness: a suite begins when a run id is stored and a result buffered
C18_Witness ==
    /\ handler = "suiteBegin"
    /\ qaseTestRunId # NoId
    /\ results # <<>>
    /\ calls # <<>>
    /\ inflight = 0

\* C19: the host emits well-nested suite events only, and under them the
\* indent counter equals the number of suites begun and not yet ended, and
\* is never negative.
C19_IndentIsOpenSuites ==
    /\ indents = Len(openSuites)
    /\ indents >= 0

\* C19 witness: two suites were begun and one of them has ended
C19_Witness ==
    /\ handler = "suiteEnd"
    /\ Len(openSuites) = 1
    /\ indents = 1

====
